---- MODULE Spec2Model ----
(***************************************************************************)
(* Model of orderer/kafka/broadcast.go: the Kafka orderer's broadcaster.   *)
(* Stream handlers (Broadcast/recvRequests) feed batchChan; one cutBlock   *)
(* goroutine batches messages and cuts hash-linked blocks via sendBlock.   *)
(* Each action is one interaction of a goroutine with shared state (the    *)
(* sync.Once, the channel, the timer, the producer).                       *)
(***************************************************************************)
EXTENDS Integers, Sequences, FiniteSets, TLC

\* ---------------------------------------------------------------- bounds
NumHandlers == 2      \* stream handlers that may call Broadcast
MaxMsgs == 3          \* total messages the clients deliver
HashMod == 5          \* hashes are modelled modulo HashMod
LiveHandlers == 2     \* handlers that connect in the fair specification
LiveMsgs == 2         \* messages the clients deliver in the fair specification
BatchSize == 2        \* config.General.BatchSize
Period == 2           \* config.General.BatchTimeout, in clock ticks

Handlers == 1..NumHandlers
GenesisPayload == 0   \* []byte("genesis")

VARIABLES
  once,         \* b.once: "fresh", "running", "done"
  batchChan,    \* b.batchChan: buffered channel contents
  messages,     \* b.messages
  nextNumber,   \* b.nextNumber
  prevHash,     \* b.prevHash: <<>> (nil) or <<h>>
  hpc,          \* position of each stream handler
  msg,          \* recvRequests' local msg of each handler
  cpc,          \* position of the cutBlock goroutine
  block,        \* sendBlock's local block while a send is in progress
  timerActive,  \* the runtime timer is armed
  timerLeft,    \* ticks until it fires
  timerC,       \* values buffered in timer.C (0 or 1)
  crashed,      \* the process died of the panic in cutBlock
  closed,       \* producer.Close() was called
  built,        \* history: blocks built by sendBlock, in order
  sendLog,      \* history: calls of producer.Send, in order
  dequeued,     \* history: payloads received from batchChan by cutBlock
  lastEvent,    \* history: the last event cutBlock's select serviced
  recvd,        \* history: number of messages each handler received
  replies       \* history: statuses each handler handed to stream.Send

vars == <<once, batchChan, messages, nextNumber, prevHash, hpc, msg, cpc,
          block, timerActive, timerLeft, timerC, crashed, closed, built,
          sendLog, dequeued, lastEvent, recvd, replies>>

chainVars == <<messages, nextNumber, prevHash, block, built>>
timerVars == <<timerActive, timerLeft, timerC>>
handlerVars == <<hpc, msg, recvd, replies>>

NoBlock == [number |-> 0, previousHash |-> <<>>, dataHash |-> <<>>, data |-> <<>>]
NoMsg == 0

\* ----------------------------------------------------------------- hashes
RECURSIVE SumBytes(_)
SumBytes(s) == IF s = <<>> THEN 0 ELSE (3 * SumBytes(Tail(s)) + Head(s) + 1) % HashMod

\* BlockData.Hash(): a digest of the ordered payload list
DataHash(data) == <<SumBytes(data)>>

\* BlockHeader.Hash(): a digest of (number, previousHash, dataHash)
HeaderHash(b) ==
  <<(2 * b.number + 3 * SumBytes(b.previousHash) + SumBytes(b.dataHash) + 1) % HashMod>>

\* --------------------------------------------------------------- sendBlock
\* lines 80-90: the block built from the broadcaster's current state
NewBlock ==
  [number |-> nextNumber, previousHash |-> prevHash,
   dataHash |-> DataHash(messages), data |-> messages]

\* mutation: the batch is not reset after a cut
ClearedMessagesKept == messages

\* line 93
ClearedMessages == <<>>

\* mutation: the block number is not incremented
AdvancedNumberStuck == nextNumber

\* line 94
AdvancedNumber == nextNumber + 1

\* mutation: the chain links to the data hash instead of the header hash
AdvancedPrevHashOfData(b) == b.dataHash

\* line 95
AdvancedPrevHash(b) == HeaderHash(b)

\* lines 80-95: build the block and advance the broadcaster's state
sendBlockPrepare ==
  /\ block' = NewBlock
  /\ built' = Append(built, NewBlock)
  /\ messages' = ClearedMessages
  /\ nextNumber' = AdvancedNumber
  /\ prevHash' = AdvancedPrevHash(NewBlock)

\* line 103: hand the marshalled block to the producer; ok is Send's outcome
producerSend(site, ok) ==
  /\ sendLog' = Append(sendLog, [block |-> block, ok |-> ok, site |-> site])
  /\ block' = NoBlock
  /\ UNCHANGED <<built, messages, nextNumber, prevHash>>

\* ------------------------------------------------------------------- Init
\* lines 47-55
Init ==
  /\ once = "fresh"
  /\ batchChan = <<>>
  /\ messages = <<GenesisPayload>>
  /\ nextNumber = 0
  /\ prevHash = <<>>
  /\ hpc = [h \in Handlers |-> "idle"]
  /\ msg = [h \in Handlers |-> NoMsg]
  /\ cpc = "none"
  /\ block = NoBlock
  /\ timerActive = FALSE
  /\ timerLeft = 0
  /\ timerC = 0
  /\ crashed = FALSE
  /\ closed = FALSE
  /\ built = <<>>
  /\ sendLog = <<>>
  /\ dequeued = <<>>
  /\ lastEvent = "none"
  /\ recvd = [h \in Handlers |-> 0]
  /\ replies = [h \in Handlers |-> <<>>]

\* -------------------------------------------------------------- Broadcast
\* mutation: no sync.Once, every caller runs the start-up function
BroadcastNoOnce(h) ==
  /\ ~crashed
  /\ hpc[h] = "idle"
  /\ once' = "running"
  /\ hpc' = [hpc EXCEPT ![h] = "genBuild"]
  /\ UNCHANGED <<batchChan, chainVars, msg, cpc, timerVars, crashed, closed,
                 sendLog, dequeued, lastEvent, recvd, replies>>

\* line 61: enter once.Do; the first caller runs the function, the others
\* wait until it has returned
Broadcast(h) ==
  /\ ~crashed
  /\ hpc[h] = "idle"
  /\ IF once = "fresh"
       THEN /\ once' = "running"
            /\ hpc' = [hpc EXCEPT ![h] = "genBuild"]
       ELSE /\ once' = once
            /\ hpc' = [hpc EXCEPT ![h] = "onceWait"]
  /\ UNCHANGED <<batchChan, chainVars, msg, cpc, timerVars, crashed, closed,
                 sendLog, dequeued, lastEvent, recvd, replies>>

\* line 61: once.Do returns for a caller that did not run the function
OncePass(h) ==
  /\ ~crashed
  /\ hpc[h] = "onceWait"
  /\ once = "done"
  /\ hpc' = [hpc EXCEPT ![h] = "recv"]
  /\ UNCHANGED <<once, batchChan, chainVars, msg, cpc, timerVars, crashed,
                 closed, sendLog, dequeued, lastEvent, recvd, replies>>

\* line 64, first half: sendBlock builds the genesis block
GenesisBuild(h) ==
  /\ ~crashed
  /\ hpc[h] = "genBuild"
  /\ sendBlockPrepare
  /\ hpc' = [hpc EXCEPT ![h] = "genSend"]
  /\ UNCHANGED <<once, batchChan, msg, cpc, timerVars, crashed, closed,
                 sendLog, dequeued, lastEvent, recvd, replies>>

\* line 64, second half: producer.Send; Broadcast drops sendBlock's error
GenesisSend(h) ==
  /\ ~crashed
  /\ hpc[h] = "genSend"
  /\ \E ok \in BOOLEAN : producerSend("genesis", ok)
  /\ hpc' = [hpc EXCEPT ![h] = "spawn"]
  /\ UNCHANGED <<once, batchChan, msg, cpc, timerVars, crashed, closed,
                 dequeued, lastEvent, recvd, replies>>

\* lines 66-68: start the cutBlock goroutine, leave once.Do, enter recvRequests
Spawn(h) ==
  /\ ~crashed
  /\ hpc[h] = "spawn"
  /\ cpc' = "newTimer"
  /\ once' = "done"
  /\ hpc' = [hpc EXCEPT ![h] = "recv"]
  /\ UNCHANGED <<batchChan, chainVars, msg, timerVars, crashed, closed,
                 sendLog, dequeued, lastEvent, recvd, replies>>

\* ----------------------------------------------------------- recvRequests
\* mutation: the reply reports a failed send of an earlier block
ReplyStatusOfSends ==
  IF \E i \in 1..Len(sendLog) : ~sendLog[i].ok THEN "SERVICE_UNAVAILABLE" ELSE "SUCCESS"

\* line 143
ReplyStatus == "SUCCESS"

\* messages delivered so far by the clients of handlers 1..n
RECURSIVE TotalRecvd(_)
TotalRecvd(n) == IF n = 0 THEN 0 ELSE recvd[n] + TotalRecvd(n - 1)

\* msg.Data of the next message of handler h's client.  The broadcaster
\* never inspects payloads, so each message carries a tag of its own, which
\* makes any loss, duplication or reordering visible.
NextPayload(h) == h + NumHandlers * recvd[h]

\* mutation: the handler acknowledges a message without forwarding it first
RecvAckFirst(h) ==
  /\ ~crashed
  /\ hpc[h] = "recv"
  /\ \/ /\ TotalRecvd(NumHandlers) < MaxMsgs
        /\ msg' = [msg EXCEPT ![h] = NextPayload(h)]
        /\ recvd' = [recvd EXCEPT ![h] = @ + 1]
        /\ hpc' = [hpc EXCEPT ![h] = "reply"]
     \/ /\ hpc' = [hpc EXCEPT ![h] = "returned"]
        /\ UNCHANGED <<msg, recvd>>
  /\ UNCHANGED <<once, batchChan, chainVars, cpc, timerVars, crashed, closed,
                 sendLog, dequeued, lastEvent, replies>>

\* lines 136-140: stream.Recv() delivers a message or fails
Recv(h) ==
  /\ ~crashed
  /\ hpc[h] = "recv"
  /\ \/ /\ TotalRecvd(NumHandlers) < MaxMsgs
        /\ msg' = [msg EXCEPT ![h] = NextPayload(h)]
        /\ recvd' = [recvd EXCEPT ![h] = @ + 1]
        /\ hpc' = [hpc EXCEPT ![h] = "enqueue"]
     \/ /\ hpc' = [hpc EXCEPT ![h] = "returned"]
        /\ UNCHANGED <<msg, recvd>>
  /\ UNCHANGED <<once, batchChan, chainVars, cpc, timerVars, crashed, closed,
                 sendLog, dequeued, lastEvent, replies>>

\* mutation: the channel takes a message however full it is
EnqueueUnbounded(h) ==
  /\ ~crashed
  /\ hpc[h] = "enqueue"
  /\ batchChan' = Append(batchChan, msg[h])
  /\ hpc' = [hpc EXCEPT ![h] = "reply"]
  /\ UNCHANGED <<once, chainVars, msg, cpc, timerVars, crashed, closed,
                 sendLog, dequeued, lastEvent, recvd, replies>>

\* line 142: b.batchChan <- msg, blocking while the buffer is full
Enqueue(h) ==
  /\ ~crashed
  /\ hpc[h] = "enqueue"
  /\ Len(batchChan) < BatchSize
  /\ batchChan' = Append(batchChan, msg[h])
  /\ hpc' = [hpc EXCEPT ![h] = "reply"]
  /\ UNCHANGED <<once, chainVars, msg, cpc, timerVars, crashed, closed,
                 sendLog, dequeued, lastEvent, recvd, replies>>

\* mutation: a failed acknowledgment takes the message back out of batchChan
ReplyFailureRetracts(h) ==
  /\ ~crashed
  /\ hpc[h] = "reply"
  /\ replies' = [replies EXCEPT ![h] = Append(@, ReplyStatus)]
  /\ \E ok \in BOOLEAN :
       /\ hpc' = [hpc EXCEPT ![h] = IF ok THEN "recv" ELSE "returned"]
       /\ batchChan' = IF ok THEN batchChan
                        ELSE SelectSeq(batchChan, LAMBDA x : x # msg[h])
  /\ UNCHANGED <<once, chainVars, msg, cpc, timerVars, crashed, closed,
                 sendLog, dequeued, lastEvent, recvd>>

\* mutation: a failed acknowledgment brings the whole process down
ReplyFailureFatal(h) ==
  /\ ~crashed
  /\ hpc[h] = "reply"
  /\ replies' = [replies EXCEPT ![h] = Append(@, ReplyStatus)]
  /\ \E ok \in BOOLEAN :
       /\ hpc' = [hpc EXCEPT ![h] = IF ok THEN "recv" ELSE "returned"]
       /\ crashed' = ~ok
  /\ UNCHANGED <<once, batchChan, chainVars, msg, cpc, timerVars, closed,
                 sendLog, dequeued, lastEvent, recvd>>

\* lines 143-149: stream.Send(reply) succeeds or fails
Reply(h) ==
  /\ ~crashed
  /\ hpc[h] = "reply"
  /\ replies' = [replies EXCEPT ![h] = Append(@, ReplyStatus)]
  /\ \E ok \in BOOLEAN : hpc' = [hpc EXCEPT ![h] = IF ok THEN "recv" ELSE "returned"]
  /\ UNCHANGED <<once, batchChan, chainVars, msg, cpc, timerVars, crashed,
                 closed, sendLog, dequeued, lastEvent, recvd>>

\* --------------------------------------------------------------- cutBlock
\* line 117 / line 123: timer.Reset(period)
timerReset ==
  /\ timerActive' = TRUE
  /\ timerLeft' = Period

\* line 107: time.NewTimer(period)
CutStart ==
  /\ ~crashed
  /\ cpc = "newTimer"
  /\ timerActive' = TRUE
  /\ timerLeft' = Period
  /\ timerC' = 0
  /\ cpc' = "select"
  /\ UNCHANGED <<once, batchChan, chainVars, handlerVars, crashed, closed,
                 sendLog, dequeued, lastEvent>>

\* the runtime clock: an armed timer counts down and, on expiry, puts one
\* value into timer.C and disarms itself
Tick ==
  /\ ~crashed
  /\ timerActive
  /\ IF timerLeft > 1
       THEN /\ timerLeft' = timerLeft - 1
            /\ UNCHANGED <<timerActive, timerC>>
       ELSE /\ timerLeft' = 0
            /\ timerActive' = FALSE
            /\ timerC' = 1
  /\ UNCHANGED <<once, batchChan, chainVars, handlerVars, cpc, crashed,
                 closed, sendLog, dequeued, lastEvent>>

\* mutation: the size test is off by one
BatchFullStrict(m) == Len(m) > BatchSize

\* line 113: the size threshold
BatchFull(m) == Len(m) >= BatchSize

\* lines 111-113: receive from batchChan, append, test the size threshold
Dequeue ==
  /\ ~crashed
  /\ cpc = "select"
  /\ batchChan # <<>>
  /\ batchChan' = Tail(batchChan)
  /\ messages' = Append(messages, Head(batchChan))
  /\ dequeued' = Append(dequeued, Head(batchChan))
  /\ lastEvent' = "message"
  /\ cpc' = IF BatchFull(messages') THEN "stop" ELSE "select"
  /\ UNCHANGED <<once, nextNumber, prevHash, block, built, handlerVars,
                 timerVars, crashed, closed, sendLog>>

\* mutation: the timer is stopped but an expiry already delivered is not drained
TimerStopNoDrain ==
  /\ ~crashed
  /\ cpc = "stop"
  /\ timerActive' = FALSE
  /\ cpc' = "sReset"
  /\ UNCHANGED <<once, batchChan, chainVars, handlerVars, timerLeft, timerC,
                 crashed, closed, sendLog, dequeued, lastEvent>>

\* line 114: timer.Stop() reports whether the timer was still armed
TimerStop ==
  /\ ~crashed
  /\ cpc = "stop"
  /\ timerActive' = FALSE
  /\ cpc' = IF timerActive THEN "sReset" ELSE "drain"
  /\ UNCHANGED <<once, batchChan, chainVars, handlerVars, timerLeft, timerC,
                 crashed, closed, sendLog, dequeued, lastEvent>>

\* line 115: <-timer.C, blocking until a value is there
TimerDrain ==
  /\ ~crashed
  /\ cpc = "drain"
  /\ timerC = 1
  /\ timerC' = 0
  /\ cpc' = "sReset"
  /\ UNCHANGED <<once, batchChan, chainVars, handlerVars, timerActive,
                 timerLeft, crashed, closed, sendLog, dequeued, lastEvent>>

\* line 117
SizeReset ==
  /\ ~crashed
  /\ cpc = "sReset"
  /\ timerReset
  /\ cpc' = "sBuild"
  /\ UNCHANGED <<once, batchChan, chainVars, handlerVars, timerC, crashed,
                 closed, sendLog, dequeued, lastEvent>>

\* line 118, first half: sendBlock builds the block of a size-triggered cut
SizeBuild ==
  /\ ~crashed
  /\ cpc = "sBuild"
  /\ sendBlockPrepare
  /\ cpc' = "sSend"
  /\ UNCHANGED <<once, batchChan, handlerVars, timerVars, crashed, closed,
                 sendLog, dequeued, lastEvent>>

\* lines 118-120 / 125-127: producer.Send; an error panics the goroutine,
\* which ends the process
cutSend(site) ==
  /\ \E ok \in BOOLEAN :
       /\ producerSend(site, ok)
       /\ crashed' = ~ok
       /\ cpc' = IF ok THEN "select" ELSE "panic"
  /\ UNCHANGED <<once, batchChan, handlerVars, timerVars, closed, dequeued, lastEvent>>

SizeSend ==
  /\ ~crashed
  /\ cpc = "sSend"
  /\ cutSend("size")

\* mutation: the timer branch cuts whatever the batch holds
TimeCutAlways(m) == Len(m) >= 0

\* mutation: the timer branch needs more than one pending message
TimeCutNeedsTwo(m) == Len(m) > 1

\* line 124: the timer branch cuts only a non-empty batch
TimeCutNeeded(m) == Len(m) > 0

\* lines 122-124: receive from timer.C, rearm, test for a non-empty batch
TimerExpired ==
  /\ ~crashed
  /\ cpc = "select"
  /\ timerC = 1
  /\ timerC' = 0
  /\ timerReset
  /\ cpc' = IF TimeCutNeeded(messages) THEN "tBuild" ELSE "select"
  /\ lastEvent' = IF TimeCutNeeded(messages) THEN "timeout" ELSE "idleTimeout"
  /\ UNCHANGED <<once, batchChan, chainVars, handlerVars, crashed, closed,
                 sendLog, dequeued>>

\* line 125, first half: sendBlock builds the block of a time-triggered cut
TimeBuild ==
  /\ ~crashed
  /\ cpc = "tBuild"
  /\ sendBlockPrepare
  /\ cpc' = "tSend"
  /\ UNCHANGED <<once, batchChan, handlerVars, timerVars, crashed, closed,
                 sendLog, dequeued, lastEvent>>

TimeSend ==
  /\ ~crashed
  /\ cpc = "tSend"
  /\ cutSend("time")

\* ------------------------------------------------------------------ Close
\* lines 72-77: the producer is closed; nothing else changes.  cutBlock and
\* the handlers read no state that Close writes.
Close ==
  /\ ~crashed
  /\ ~closed
  /\ closed' = TRUE
  /\ UNCHANGED <<once, batchChan, chainVars, handlerVars, cpc, timerVars,
                 crashed, sendLog, dequeued, lastEvent>>

\* ------------------------------------------------------------------- Spec
Next ==
  \/ \E h \in Handlers : Broadcast(h)
  \/ \E h \in Handlers : OncePass(h)
  \/ \E h \in Handlers : GenesisBuild(h)
  \/ \E h \in Handlers : GenesisSend(h)
  \/ \E h \in Handlers : Spawn(h)
  \/ \E h \in Handlers : Recv(h)
  \/ \E h \in Handlers : Enqueue(h)
  \/ \E h \in Handlers : Reply(h)
  \/ CutStart
  \/ Tick
  \/ Dequeue
  \/ TimerStop
  \/ TimerDrain
  \/ SizeReset
  \/ SizeBuild
  \/ SizeSend
  \/ TimerExpired
  \/ TimeBuild
  \/ TimeSend

\* Broadcast, recvRequests and cutBlock; no Close, so the producer stays open
Spec == Init /\ [][Next]_vars

\* the same with Close allowed at any moment
NextClose == Next \/ Close

SpecClose == Init /\ [][NextClose]_vars

TypeOK ==
  /\ once \in {"fresh", "running", "done"}
  /\ Len(batchChan) <= BatchSize
  /\ timerC \in {0, 1}
  /\ timerLeft \in 0..Period
  /\ cpc \in {"none", "newTimer", "select", "stop", "drain", "sReset",
              "sBuild", "sSend", "tBuild", "tSend", "panic"}

\* ----------------------------------------------------------------- claims
InRecvRequests(h) == hpc[h] \in {"recv", "enqueue", "reply", "returned"}

GenesisSends == {i \in 1..Len(sendLog) : sendLog[i].site = "genesis"}

\* C1: however many handlers call Broadcast, exactly one genesis block is
\* handed to producer.Send, it is the first send, and it happens before
\* cutBlock is started, before any message is taken from batchChan and
\* before any handler enters recvRequests.
C1_GenesisOnce ==
  /\ Cardinality(GenesisSends) <= 1
  /\ sendLog # <<>> =>
       /\ GenesisSends = {1}
       /\ sendLog[1].block.number = 0
       /\ sendLog[1].block.data = <<GenesisPayload>>
  /\ (once = "done" \/ cpc # "none" \/ dequeued # <<>> \/ batchChan # <<>>)
       => GenesisSends = {1}
  /\ \A h \in Handlers : InRecvRequests(h) => GenesisSends = {1}

C1_Witness ==
  /\ \A h \in Handlers : InRecvRequests(h)
  /\ Len(sendLog) >= 2
  /\ sendLog[2].site # "genesis"

RECURSIVE ConcatData(_)
ConcatData(bs) == IF bs = <<>> THEN <<>> ELSE Head(bs).data \o ConcatData(Tail(bs))

\* C2: the payloads of the client blocks in block order, followed by the
\* pending batch, are exactly the messages taken from batchChan, in dequeue
\* order (the genesis block holds the genesis payload only); every block
\* handed to producer.Send is the block built, whole and in order.
C2_NoLossNoReorder ==
  /\ ConcatData(built) \o messages = <<GenesisPayload>> \o dequeued
  /\ built # <<>> => built[1].data = <<GenesisPayload>>
  /\ Len(built) - Len(sendLog) \in {0, 1}
  /\ \A i \in 1..Len(sendLog) : sendLog[i].block = built[i]

C2_Witness ==
  /\ Len(built) >= 3
  /\ messages # <<>>
  /\ Len(dequeued) >= 3
  /\ dequeued[1] > dequeued[2]

\* C3: the genesis block has an empty previousHash and every later block's
\* previousHash is the header hash of the block built just before it.
C3_ChainLinkage ==
  /\ built # <<>> => built[1].previousHash = <<>>
  /\ \A i \in 2..Len(built) : built[i].previousHash = HeaderHash(built[i - 1])

C3_Witness ==
  /\ Len(built) >= 3
  /\ built[3].previousHash # built[2].previousHash

\* C4: the k-th block built (genesis is k = 0) carries number k, whatever
\* the sequence of size-triggered and time-triggered cuts.
C4_GaplessNumbers ==
  \A i \in 1..Len(built) : built[i].number = i - 1

C4_Witness ==
  /\ Len(sendLog) >= 3
  /\ \E i, j \in 1..Len(sendLog) :
       sendLog[i].site = "size" /\ sendLog[j].site = "time"

LastN(q, n) == SubSeq(q, Len(q) - n + 1, Len(q))

SizePath == {"stop", "drain", "sReset", "sBuild", "sSend"}

\* C5: when appending a dequeued message brings the batch to BatchSize, the
\* cutter stops/drains and rearms the timer for a full period, builds one
\* block holding exactly those BatchSize payloads in dequeue order, empties
\* the batch and sends that block once, all before it takes another
\* message or timer event.
C5_SizeCut ==
  [][/\ (cpc = "select" /\ dequeued' # dequeued) =>
          /\ Len(messages') <= BatchSize
          /\ (Len(messages') = BatchSize <=> cpc' = "stop")
          /\ built' = built
     /\ cpc \in SizePath =>
          /\ dequeued' = dequeued
          /\ lastEvent' = lastEvent
          /\ cpc' \in SizePath \cup {"select", "panic"}
          /\ (built' # built => cpc = "sBuild" /\ cpc' = "sSend")
          /\ (sendLog' # sendLog => cpc = "sSend" /\ cpc' \in {"select", "panic"})
     /\ cpc \in {"stop", "drain", "sReset", "sBuild"} =>
          /\ Len(messages) = BatchSize
          /\ messages = LastN(dequeued, BatchSize)
     /\ (cpc = "sReset" /\ cpc' = "sBuild") =>
          /\ timerActive' /\ timerLeft' = Period /\ timerC' = 0
     /\ (cpc = "sBuild" /\ cpc' = "sSend") =>
          /\ built' = Append(built, block')
          /\ block'.data = messages
          /\ messages' = <<>>
     /\ cpc = "sSend" =>
          /\ messages = <<>>
          /\ block.data = LastN(dequeued, BatchSize)
          /\ block = built[Len(built)]
     /\ (cpc = "sSend" /\ cpc' # cpc) =>
          /\ sendLog' = Append(sendLog,
                [block |-> block, ok |-> (cpc' = "select"), site |-> "size"])
          /\ messages' = <<>>
          /\ timerActive' \/ timerC' = 1
    ]_vars

C5_Witness ==
  /\ cpc = "select"
  /\ lastEvent = "message"
  /\ messages = <<>>
  /\ Len(sendLog) >= 2
  /\ sendLog[Len(sendLog)].site = "size"
  /\ sendLog[Len(sendLog)].ok
  /\ Len(sendLog[Len(sendLog)].block.data) = BatchSize

TimePath == {"tBuild", "tSend"}

\* C6: when the cutter takes a timer expiry while the batch is non-empty it
\* rearms the timer for a full period, builds one block holding all the
\* pending payloads in dequeue order, empties the batch and sends the block
\* once before it takes another event.
C6_TimeCut ==
  [][/\ (cpc = "select" /\ timerC = 1 /\ timerC' = 0 /\ messages # <<>>) =>
          /\ cpc' = "tBuild"
          /\ Len(messages) < BatchSize
          /\ messages' = messages
          /\ built' = built
          /\ timerActive' /\ timerLeft' = Period
     /\ cpc \in TimePath =>
          /\ dequeued' = dequeued
          /\ lastEvent' = lastEvent
          /\ cpc' \in TimePath \cup {"select", "panic"}
          /\ (built' # built => cpc = "tBuild" /\ cpc' = "tSend")
          /\ (sendLog' # sendLog => cpc = "tSend" /\ cpc' \in {"select", "panic"})
     /\ cpc = "tBuild" =>
          /\ messages # <<>>
          /\ messages = LastN(dequeued, Len(messages))
     /\ (cpc = "tBuild" /\ cpc' = "tSend") =>
          /\ built' = Append(built, block')
          /\ block'.data = messages
          /\ messages' = <<>>
     /\ cpc = "tSend" =>
          /\ messages = <<>>
          /\ block = built[Len(built)]
     /\ (cpc = "tSend" /\ cpc' # cpc) =>
          /\ sendLog' = Append(sendLog,
                [block |-> block, ok |-> (cpc' = "select"), site |-> "time"])
          /\ messages' = <<>>
    ]_vars

C6_Witness ==
  /\ cpc = "select"
  /\ lastEvent = "timeout"
  /\ messages = <<>>
  /\ Len(sendLog) >= 2
  /\ sendLog[Len(sendLog)].site = "time"
  /\ sendLog[Len(sendLog)].ok
  /\ sendLog[Len(sendLog)].block.data # <<>>

\* C7: a timer expiry taken while the batch is empty only rearms the timer:
\* no block is built or sent, nextNumber, prevHash, the empty batch and
\* batchChan stay as they are; and no block ever built has an empty
\* payload list.
C7_IdleTimeoutNoOp ==
  [][/\ (cpc = "select" /\ timerC = 1 /\ timerC' = 0 /\ messages = <<>>) =>
          /\ cpc' = "select"
          /\ timerActive' /\ timerLeft' = Period
          /\ UNCHANGED <<built, sendLog, block, nextNumber, prevHash,
                         messages, batchChan, dequeued>>
     /\ \A i \in 1..Len(built') : built'[i].data # <<>>
    ]_vars

C7_Witness ==
  /\ lastEvent = "idleTimeout"
  /\ cpc = "select"
  /\ messages = <<>>
  /\ Len(built) >= 2

\* C8: once a call of producer.Send has failed (the genesis send included),
\* no further block is built and no further send is attempted.
C8_FatalHalt ==
  \A i \in 1..Len(sendLog) :
    ~sendLog[i].ok => (i = Len(sendLog) /\ Len(built) = i)

\* C9: after a failed send, nextNumber and prevHash have the values they
\* had before sendBlock was entered for that block, i.e. the failed block's
\* own number and previousHash.
C9_AdvanceOnlyAfterConfirm ==
  (sendLog # <<>> /\ ~sendLog[Len(sendLog)].ok) =>
    /\ nextNumber = sendLog[Len(sendLog)].block.number
    /\ prevHash = sendLog[Len(sendLog)].block.previousHash

C11_HandlerErrorLocal ==
  [][\A h \in Handlers :
       (hpc[h] # "returned" /\ hpc'[h] = "returned") =>
         /\ hpc[h] \in {"recv", "reply"}
         /\ UNCHANGED <<messages, nextNumber, prevHash, block, built,
                        timerActive, timerLeft, timerC, batchChan, cpc,
                        crashed, closed, once, sendLog, dequeued, msg, recvd>>
         /\ \A g \in Handlers \ {h} :
              hpc'[g] = hpc[g] /\ replies'[g] = replies[g]
    ]_vars

C11_Witness ==
  \E h, g \in Handlers :
    /\ hpc[h] = "returned"
    /\ recvd[h] = 0
    /\ hpc[g] = "recv"
    /\ recvd[g] >= 2
    /\ ~crashed
    /\ cpc = "select"
    /\ Len(sendLog) >= 2
    /\ sendLog[Len(sendLog)].ok

\* C12: batchChan never holds more than BatchSize messages; a handler with
\* a message to forward keeps it and stays where it is while the channel is
\* full (it neither drops the message nor returns), can enqueue as soon as
\* there is room, and then its message goes to the tail; the cutter takes
\* messages from the head only, so they leave in the order they entered.
C12_Backpressure ==
  /\ [](Len(batchChan) <= BatchSize)
  /\ [](\A h \in Handlers :
          (hpc[h] = "enqueue" /\ ~crashed) =>
            (ENABLED Enqueue(h) <=> Len(batchChan) < BatchSize))
  /\ [][/\ \A h \in Handlers :
            hpc[h] = "enqueue" =>
              /\ hpc'[h] \in {"enqueue", "reply"}
              /\ msg'[h] = msg[h]
              /\ (Len(batchChan) >= BatchSize => hpc'[h] = "enqueue")
              /\ (hpc'[h] = "reply" => batchChan' = Append(batchChan, msg[h]))
        /\ batchChan' # batchChan =>
              \/ \E h \in Handlers :
                    /\ hpc[h] = "enqueue" /\ hpc'[h] = "reply"
                    /\ batchChan' = Append(batchChan, msg[h])
                    /\ dequeued' = dequeued
              \/ /\ batchChan # <<>>
                 /\ batchChan' = Tail(batchChan)
                 /\ dequeued' = Append(dequeued, Head(batchChan))
        /\ dequeued' # dequeued => batchChan' = Tail(batchChan)
       ]_vars

C12_Witness ==
  /\ Len(batchChan) = BatchSize
  /\ \E h \in Handlers : hpc[h] = "enqueue"
  /\ cpc = "select"
  /\ ~crashed

\* C13: once Close has closed the producer, producer.Send is never called
\* again, so what was in the batch or in batchChan at that moment is never
\* sent.
C13_NoSendAfterClose ==
  [][closed => sendLog' = sendLog]_vars

\* tasks that are inside sendBlock
HandlersInSendBlock == {h \in Handlers : hpc[h] \in {"genBuild", "genSend"}}

CutterInSendBlock == cpc \in {"sBuild", "sSend", "tBuild", "tSend"}

\* C15: at most one task is inside sendBlock at any time; the cutter is
\* started once, by the handler that ran the genesis sendBlock and only
\* after that send has returned; and from then on b.messages, b.nextNumber
\* and b.prevHash change only in steps of the cutter.
C15_SingleOwner ==
  /\ [](Cardinality(HandlersInSendBlock) + (IF CutterInSendBlock THEN 1 ELSE 0) <= 1)
  /\ []((\E h \in Handlers : hpc[h] \in {"genBuild", "genSend", "spawn"}) => cpc = "none")
  /\ [][/\ (cpc = "none" /\ cpc' # "none") =>
             /\ cpc' = "newTimer"
             /\ once = "running" /\ once' = "done"
             /\ Len(sendLog) = 1 /\ Len(built) = 1 /\ messages = <<>>
        /\ cpc # "none" => (cpc' # "none" /\ (cpc' = "newTimer" => cpc = "newTimer"))
        /\ (cpc # "none" /\ <<messages, nextNumber, prevHash>>' # <<messages, nextNumber, prevHash>>)
             => (hpc' = hpc /\ cpc \in {"select", "sBuild", "tBuild"})
       ]_vars

C15_Witness ==
  /\ cpc = "sSend"
  /\ \A h \in Handlers : hpc[h] \in {"recv", "enqueue", "reply"}
  /\ Len(built) >= 2

\* every message that has entered batchChan so far, in order of entry
Enqueued == dequeued \o batchChan

InSeq(x, q) == \E i \in 1..Len(q) : q[i] = x

\* C16: a handler receives, enqueues and acknowledges in strict rotation:
\* it receives only when every earlier message has had its reply, it
\* leaves the enqueue step only by putting the message into batchChan, and
\* it replies only for a message that is already in batchChan or beyond;
\* so it never has more than one message without a reply.
C16_RecvEnqueueAck ==
  /\ [](\A h \in Handlers :
          /\ recvd[h] - Len(replies[h]) \in {0, 1}
          /\ hpc[h] = "enqueue" => ~InSeq(msg[h], Enqueued)
          /\ hpc[h] = "reply" => InSeq(msg[h], Enqueued))
  /\ [][\A h \in Handlers :
          /\ recvd'[h] # recvd[h] =>
               /\ hpc[h] = "recv" /\ hpc'[h] = "enqueue"
               /\ Len(replies[h]) = recvd[h]
               /\ recvd'[h] = recvd[h] + 1
          /\ (hpc[h] = "enqueue" /\ hpc'[h] # "enqueue") =>
               /\ hpc'[h] = "reply"
               /\ batchChan' = Append(batchChan, msg[h])
          /\ replies'[h] # replies[h] =>
               /\ hpc[h] = "reply" /\ hpc'[h] \in {"recv", "returned"}
               /\ Len(replies'[h]) = recvd[h]
               /\ InSeq(msg[h], Enqueued)
       ]_vars

C16_Witness ==
  \E h \in Handlers :
    /\ hpc[h] = "reply"
    /\ recvd[h] >= 2
    /\ Len(replies[h]) = recvd[h] - 1
    /\ InSeq(msg[h], batchChan)

\* C17: while the cutter waits in its select the batch holds fewer than
\* BatchSize messages, and every block after the genesis block carries at
\* least one and at most BatchSize payloads.
C17_BatchBelowSize ==
  /\ cpc = "select" => Len(messages) < BatchSize
  /\ \A i \in 2..Len(built) :
       Len(built[i].data) >= 1 /\ Len(built[i].data) <= BatchSize

C17_Witness ==
  /\ cpc = "select"
  /\ Len(messages) = BatchSize - 1
  /\ Len(built) >= 2
  /\ Len(built[2].data) = BatchSize

\* C18: when timer.Stop() has reported an expired timer, the expiry is in
\* timer.C, so the drain at line 115 can proceed; an armed timer never has
\* an expiry of an earlier period left in timer.C, in particular not after
\* the rearm of a size-triggered cut.
C18_DrainNeverBlocks ==
  /\ [](cpc = "drain" => (timerC = 1 /\ ~timerActive))
  /\ []((cpc = "drain" /\ ~crashed) => ENABLED TimerDrain)
  /\ [](timerActive => timerC = 0)
  /\ [](cpc = "sReset" => (timerC = 0 /\ ~timerActive))
  /\ [][(cpc = "sReset" /\ cpc' = "sBuild") =>
          (timerActive' /\ timerLeft' = Period /\ timerC' = 0)]_vars

C18_Witness ==
  /\ cpc = "drain"
  /\ timerC = 1
  /\ ~timerActive
  /\ Len(messages) = BatchSize

\* ------------------------------------------------------- fair specification
\* The environment of the liveness claims: every producer.Send succeeds, at
\* most LiveHandlers clients connect and they deliver at most LiveMsgs
\* messages (and may stop delivering at any moment).
LiveEnv ==
  /\ \A i \in 1..Len(sendLog) : sendLog[i].ok
  /\ \A h \in Handlers : h > LiveHandlers => hpc[h] = "idle"
  /\ TotalRecvd(NumHandlers) <= LiveMsgs

LiveNext == Next /\ LiveEnv'

\* The runtime clock keeps running and the cutBlock goroutine keeps being
\* scheduled; its select picks at random among the ready cases, so a case
\* that stays ready is eventually taken.  Handlers are under no obligation.
LiveFairness ==
  /\ WF_vars(Tick /\ LiveEnv')
  /\ WF_vars(CutStart /\ LiveEnv')
  /\ WF_vars(Dequeue /\ LiveEnv')
  /\ WF_vars(TimerExpired /\ LiveEnv')
  /\ WF_vars((TimerStop \/ TimerDrain \/ SizeReset \/ SizeBuild \/ SizeSend
               \/ TimeBuild \/ TimeSend) /\ LiveEnv')

SpecLive == Init /\ [][LiveNext]_vars /\ LiveFairness

SentInBlock(p) ==
  \E i \in 1..Len(sendLog) : sendLog[i].ok /\ InSeq(p, sendLog[i].block.data)

AllEnqueuedSent ==
  \A k \in 1..Len(Enqueued) : SentInBlock(Enqueued[k])

\* C14: with the timer running, the cutter scheduled and every send
\* succeeding, from any moment on a moment comes at which every message
\* that has entered batchChan so far is part of a block handed to
\* producer.Send; so each enqueued message is eventually sent, whether or
\* not more messages follow.
C14_EventuallySent == []<>AllEnqueuedSent

C14_Witness ==
  /\ Len(Enqueued) = 1
  /\ SentInBlock(Enqueued[1])
  /\ sendLog[Len(sendLog)].site = "time"
  /\ \A h \in Handlers : hpc[h] \in {"idle", "returned"}

IsPrefix(p, q) == Len(p) <= Len(q) /\ SubSeq(q, 1, Len(p)) = p

\* C19: a reply is attempted only for a message that is already in
\* batchChan or beyond, the attempt (failed or not) changes neither
\* batchChan nor the batch nor the blocks, nothing that has entered
\* batchChan is ever taken back, and the last message of a handler that has
\* returned with an error ends up in a sent block like any other (with the
\* timer running, the cutter scheduled and the sends succeeding).
C19_EnqueuedThenKept ==
  /\ [][/\ \A h \in Handlers :
            replies'[h] # replies[h] =>
              /\ InSeq(msg[h], Enqueued)
              /\ UNCHANGED <<batchChan, dequeued, messages, built, sendLog>>
        /\ IsPrefix(Enqueued, Enqueued')
       ]_vars
  /\ []<>(\A h \in Handlers :
            (hpc[h] = "returned" /\ recvd[h] >= 1) => SentInBlock(msg[h]))

C19_Witness ==
  \E h \in Handlers :
    /\ hpc[h] = "returned"
    /\ recvd[h] >= 1
    /\ Len(replies[h]) = recvd[h]
    /\ SentInBlock(msg[h])
    /\ cpc = "select"

====
